---- MODULE Spec2Model ----
(***************************************************************************)
(* A model of the playback core of the music player:                       *)
(*   src/src-tauri/src/music/queue.rs   the cyclic play queue              *)
(*   src/src-tauri/src/music/player.rs  AudioPlayer and its commands       *)
(*                                                                         *)
(* Time is counted in milliseconds.  The monotonic clock advances in ticks *)
(* of 500 ms.  Volumes are percentages (100 is the gain 1.0).              *)
(***************************************************************************)
EXTENDS Integers, Sequences, FiniteSets, TLC

VARIABLES
    queue,        \* Queue { songs, current_index }
    qlast,        \* the last queue operation: [op, index, song, ret]
    clock,        \* the monotonic clock, in ticks
    played,       \* the clock time that has passed while is_playing was true, ms
    is_playing,   \* AudioPlayer.is_playing (AtomicBool)
    muted,        \* AudioPlayer.muted (AtomicBool)
    volume,       \* AudioPlayer.volume
    eq_settings,  \* AudioPlayer.eq_settings
    duration,     \* AudioPlayer.duration, ms
    progress,     \* AudioPlayer.progress, ms
    last_update,  \* AudioPlayer.last_update, ms on the clock
    sink,         \* the rodio Sink: [stream, eq, paused, last, gain]
    lock,         \* the owner of each Mutex, or Free
    poisoned,     \* the Mutexes a panicking holder has poisoned
    pc,           \* each caller's position in its call
    call,         \* each caller's command and arguments: [op, song, n, b, eq]
    loc,          \* each caller's locals: [was_playing, playing, muted, song, position]
    pre,          \* the player state when the caller's command was invoked
    ret           \* what the caller's command returned: [st, val]

vars == <<queue, qlast, clock, played, is_playing, muted, volume, eq_settings,
          duration, progress, last_update, sink, lock, poisoned, pc, call, loc,
          pre, ret>>

playerVars == <<clock, played, is_playing, muted, volume, eq_settings,
                duration, progress, last_update, sink, lock, poisoned, pc, call,
                loc, pre, ret>>

(***************************************************************************)
(* Bounds of the model.                                                    *)
(***************************************************************************)
MaxQueue == 3       \* the longest queue add_song builds
MaxClock == 2       \* the clock stops after this many ticks
MaxPlayerQueue == 1 \* the longest queue the player is given
MaxSkipQueue == 2   \* the longest queue skip is run on

(***************************************************************************)
(* Songs.  A Song is known to this core by its id and its duration; the    *)
(* file the id resolves to is part of the environment.                     *)
(*   A  A.flac exists and decodes      B  B.mp3 exists and decodes         *)
(*   X  X.flac exists, does not decode Z  neither Z.flac nor Z.mp3 exists  *)
(* Durations are those of catalog records: positive, so that               *)
(* song.duration.try_into().unwrap() succeeds.                             *)
(***************************************************************************)
Songs == {"A", "B", "C", "X", "Z"}
NoSong == "none"

SongDuration(s) ==
    CASE s = "A" -> 3000
      [] s = "B" -> 2000
      [] s = "C" -> 2500
      [] s = "X" -> 1000
      [] OTHER   -> 1500

HasFlac(s) == s \in {"A", "C", "X"}
HasMp3(s) == s \in {"B", "C"}
Decodes(s) == s \in {"A", "B", "C"}

(***************************************************************************)
(* queue.rs                                                                *)
(***************************************************************************)
Queue_new == [songs |-> <<>>, current_index |-> 0]

\* Vec::remove(index): the elements after index shift left by one.
VecRemove(v, index) ==
    [k \in 1..(Len(v) - 1) |-> IF k <= index THEN v[k] ELSE v[k + 1]]

\* Vec indexing is 0-based: v[i] in Rust is v[i + 1] here.
VecAt(v, i) == v[i + 1]

add_song(q, song) == [q EXCEPT !.songs = Append(q.songs, song)]

\* remove_song that moves the cursor back wherever the removal is.
remove_song_always_back(q, index) ==
    IF index < Len(q.songs)
    THEN [songs |-> VecRemove(q.songs, index),
          current_index |-> IF q.current_index > 0
                            THEN q.current_index - 1
                            ELSE q.current_index]
    ELSE q

\* remove_song that never moves the cursor.
remove_song_keeps_cursor(q, index) ==
    IF index < Len(q.songs)
    THEN [songs |-> VecRemove(q.songs, index), current_index |-> q.current_index]
    ELSE q

\* remove_song that moves the cursor only for a removal before it.
remove_song_strictly_before(q, index) ==
    IF index < Len(q.songs)
    THEN [songs |-> VecRemove(q.songs, index),
          current_index |-> IF q.current_index > index
                            THEN q.current_index - 1
                            ELSE q.current_index]
    ELSE q

remove_song(q, index) ==
    IF index < Len(q.songs)
    THEN [songs |-> VecRemove(q.songs, index),
          current_index |-> IF q.current_index >= index /\ q.current_index > 0
                            THEN q.current_index - 1
                            ELSE q.current_index]
    ELSE q

\* next and prev return the queue after the call; their Option<&Song> is
\* current() of that queue.
\* A next that steps over a song.
next_by_two(q) ==
    IF Len(q.songs) = 0
    THEN q
    ELSE [q EXCEPT !.current_index = (q.current_index + 2) % Len(q.songs)]

\* A next that stops at the last song instead of wrapping around.
next_stops_at_end(q) ==
    IF Len(q.songs) = 0 \/ q.current_index + 1 >= Len(q.songs)
    THEN q
    ELSE [q EXCEPT !.current_index = q.current_index + 1]

next(q) ==
    IF Len(q.songs) = 0
    THEN q
    ELSE [q EXCEPT !.current_index = (q.current_index + 1) % Len(q.songs)]

prev(q) ==
    IF Len(q.songs) = 0
    THEN q
    ELSE [q EXCEPT !.current_index =
                       (q.current_index + Len(q.songs) - 1) % Len(q.songs)]

\* An index outside the Vec panics.
current(q) ==
    IF Len(q.songs) = 0
    THEN NoSong
    ELSE IF q.current_index < Len(q.songs)
         THEN VecAt(q.songs, q.current_index)
         ELSE "panic"

clear(q) == [songs |-> <<>>, current_index |-> 0]

QueueSongs == {"A", "B", "C"}

\* The queue operations as a caller makes them; qlast records the call.
QAdd ==
    /\ Len(queue.songs) < MaxQueue
    /\ \E s \in QueueSongs :
          /\ queue' = add_song(queue, s)
          /\ qlast' = [op |-> "add", index |-> 0, song |-> s, ret |-> NoSong]
    /\ UNCHANGED playerVars

QRemove ==
    /\ \E i \in 0..MaxQueue :
          /\ queue' = remove_song(queue, i)
          /\ qlast' = [op |-> "remove", index |-> i, song |-> NoSong, ret |-> NoSong]
    /\ UNCHANGED playerVars

QNext ==
    /\ queue' = next(queue)
    /\ qlast' = [op |-> "next", index |-> 0, song |-> NoSong,
                 ret |-> current(next(queue))]
    /\ UNCHANGED playerVars

QPrev ==
    /\ queue' = prev(queue)
    /\ qlast' = [op |-> "prev", index |-> 0, song |-> NoSong,
                 ret |-> current(prev(queue))]
    /\ UNCHANGED playerVars

QCurrent ==
    /\ queue' = queue
    /\ qlast' = [op |-> "current", index |-> 0, song |-> NoSong,
                 ret |-> current(queue)]
    /\ UNCHANGED playerVars

QClear ==
    /\ queue' = clear(queue)
    /\ qlast' = [op |-> "clear", index |-> 0, song |-> NoSong, ret |-> NoSong]
    /\ UNCHANGED playerVars

(***************************************************************************)
(* player.rs: the state of AudioPlayer.                                    *)
(*                                                                         *)
(* Each caller (a thread running one command at a time) moves through the  *)
(* command one shared access at a time: a step takes a lock, or reads or   *)
(* writes an atomic, or acts under a lock it holds.  The atomics are read  *)
(* and written in one total order.  The volume and eq_settings mutexes are *)
(* held only for the statement that takes them and no holder of them can   *)
(* panic, so they never block and are never poisoned: a step that uses     *)
(* them reads or writes the value directly.  looping and lossless are set  *)
(* and never read by this core and are left out.                           *)
(***************************************************************************)
Threads == {"t1", "t2"}
Free == "free"
Locks == {"sink", "duration", "progress", "last_update", "queue"}

Now == clock * 500

\* A command and its arguments: the Song, the number (a position in seconds,
\* a percentage, a volume), the flag, the EQSettings.
Cmd(op, song, n, b, eq) == [op |-> op, song |-> song, n |-> n, b |-> b, eq |-> eq]
NoCall == Cmd("none", NoSong, 0, FALSE, "empty")
NoLoc == [was_playing |-> FALSE, playing |-> FALSE, muted |-> FALSE,
          song |-> NoSong, position |-> 0]
NoPre == [set |-> FALSE]
NoRet == [st |-> "none", val |-> 0]
Ok == [st |-> "ok", val |-> 0]

\* The player state a command finds when it is invoked.
Snapshot ==
    [set |-> TRUE, is_playing |-> is_playing, muted |-> muted, volume |-> volume,
     eq_settings |-> eq_settings, duration |-> duration, progress |-> progress,
     last_update |-> last_update, sink |-> sink, queue |-> queue, now |-> Now]

\* AudioPlayer::setup; a new rodio Sink is empty, not paused, at gain 1.0.
InitPlayer ==
    /\ clock = 0
    /\ played = 0
    /\ is_playing = FALSE
    /\ muted = FALSE
    /\ volume = 100
    /\ eq_settings = "empty"
    /\ duration = 0
    /\ progress = 0
    /\ last_update = 0
    /\ sink = [stream |-> NoSong, eq |-> <<>>, paused |-> FALSE, last |-> "none",
               gain |-> 100]
    /\ lock = [l \in Locks |-> Free]
    /\ poisoned = {}
    /\ pc = [t \in Threads |-> "idle"]
    /\ call = [t \in Threads |-> NoCall]
    /\ loc = [t \in Threads |-> NoLoc]
    /\ pre = [t \in Threads |-> NoPre]
    /\ ret = [t \in Threads |-> NoRet]

InitQueue ==
    /\ queue = Queue_new
    /\ qlast = [op |-> "new", index |-> 0, song |-> NoSong, ret |-> NoSong]

Init == InitPlayer /\ InitQueue

\* The Mutex the caller's next step locks, if any.
NeedLock(t) ==
    CASE pc[t] \in {"play_sink", "pause_sink", "sm_sink", "sv_sink",
                    "load_lock", "seek_lock"}                      -> "sink"
      [] pc[t] \in {"load_duration", "skipto_lock"}                -> "duration"
      [] pc[t] \in {"load_progress", "seek_progress", "gp_progress"} -> "progress"
      [] pc[t] \in {"load_last", "seek_last", "play_last", "gp_last"} -> "last_update"
      [] pc[t] = "skip_lock"                                       -> "queue"
      [] OTHER                                                     -> "none"

\* Mutex::lock blocks while another guard is alive.
CanLock(t) == NeedLock(t) \in Locks /\ lock[NeedLock(t)] = Free

\* lock().unwrap() on a poisoned Mutex panics.
IsPoisoned(t) == NeedLock(t) \in poisoned

Holds(t) == {l \in Locks : lock[l] = t}

At(t, label) == pc[t] = label
Goto(t, label) == pc' = [pc EXCEPT ![t] = label]

\* A panic unwinds the call: every guard the caller holds is dropped and its
\* Mutex poisoned.
Panic(t) ==
    /\ pc' = [pc EXCEPT ![t] = "done"]
    /\ ret' = [ret EXCEPT ![t] = [st |-> "panic", val |-> 0]]
    /\ lock' = [l \in Locks |-> IF lock[l] = t THEN Free ELSE lock[l]]
    /\ poisoned' = poisoned \cup Holds(t)

\* The command returns r: every guard the caller holds is dropped.
Finish(t, r) ==
    /\ pc' = [pc EXCEPT ![t] = "done"]
    /\ ret' = [ret EXCEPT ![t] = r]
    /\ lock' = [l \in Locks |-> IF lock[l] = t THEN Free ELSE lock[l]]
    /\ poisoned' = poisoned

\* The caller keeps the guard of the Mutex it was waiting for.
Take(t) == lock' = [lock EXCEPT ![NeedLock(t)] = t]


\* The first step of each command.
Entry(op) ==
    CASE op = "play"            -> "play_sink"
      [] op = "pause"           -> "pause_sink"
      [] op = "play_pause"      -> "pp_load"
      [] op = "seek"            -> "seek_lock"
      [] op = "rewind"          -> "seek_lock"
      [] op = "skip_to"         -> "skipto_lock"
      [] op = "skip"            -> "skip_lock"
      [] op = "load_song"       -> "load_resolve"
      [] op = "set_volume"      -> "sv_store"
      [] op = "set_muted"       -> "sm_store"
      [] op = "set_eq_settings" -> "eq_store"
      [] OTHER                  -> "gp_progress"

\* The seek command passes Duration::from_secs(position); rewind passes 0.
SeekArg(c) == IF c.op = "seek" THEN c.n * 1000 ELSE 0

\* A caller invokes command c; snap is the record of the state it finds.
Call(t, c, snap) ==
    /\ At(t, "idle")
    /\ Goto(t, Entry(c.op))
    /\ call' = [call EXCEPT ![t] = c]
    /\ loc' = [loc EXCEPT ![t] = [NoLoc EXCEPT !.song = c.song,
                                               !.position = SeekArg(c)]]
    /\ pre' = [pre EXCEPT ![t] = snap]
    /\ ret' = [ret EXCEPT ![t] = NoRet]
    /\ UNCHANGED <<queue, qlast, clock, played, is_playing, muted, volume,
                   eq_settings, duration, progress, last_update, sink, lock,
                   poisoned>>

\* The caller takes the result; it may invoke its next command.
Return(t) ==
    /\ At(t, "done")
    /\ Goto(t, "idle")
    /\ call' = [call EXCEPT ![t] = NoCall]
    /\ loc' = [loc EXCEPT ![t] = NoLoc]
    /\ pre' = [pre EXCEPT ![t] = NoPre]
    /\ ret' = [ret EXCEPT ![t] = NoRet]
    /\ UNCHANGED <<queue, qlast, clock, played, is_playing, muted, volume,
                   eq_settings, duration, progress, last_update, sink, lock,
                   poisoned>>

\* Real time passes.
Tick ==
    /\ clock < MaxClock
    /\ clock' = clock + 1
    /\ played' = IF is_playing THEN played + 500 ELSE played
    /\ UNCHANGED <<queue, qlast, is_playing, muted, volume, eq_settings, duration,
                   progress, last_update, sink, lock, poisoned, pc, call, loc,
                   pre, ret>>

(***************************************************************************)
(* get_playback_position (player.rs 59-71), called by the position query   *)
(* and by pause.                                                           *)
(***************************************************************************)
GpLockProgress(t) ==
    /\ At(t, "gp_progress")
    /\ CanLock(t)
    /\ IF IsPoisoned(t)
       THEN Panic(t)
       ELSE Take(t) /\ Goto(t, "gp_last") /\ UNCHANGED <<poisoned, ret>>
    /\ UNCHANGED <<queue, qlast, clock, played, is_playing, muted, volume,
                   eq_settings, duration, progress, last_update, sink, call,
                   loc, pre>>

GpLockLast(t) ==
    /\ At(t, "gp_last")
    /\ CanLock(t)
    /\ IF IsPoisoned(t)
       THEN Panic(t)
       ELSE Take(t) /\ Goto(t, "gp_load") /\ UNCHANGED <<poisoned, ret>>
    /\ UNCHANGED <<queue, qlast, clock, played, is_playing, muted, volume,
                   eq_settings, duration, progress, last_update, sink, call,
                   loc, pre>>

GpLoad(t) ==
    /\ At(t, "gp_load")
    /\ loc' = [loc EXCEPT ![t].playing = is_playing]
    /\ Goto(t, "gp_accrue")
    /\ UNCHANGED <<queue, qlast, clock, played, is_playing, muted, volume,
                   eq_settings, duration, progress, last_update, sink, lock,
                   poisoned, call, pre, ret>>

\* An accrual that overwrites progress with the elapsed time.
Accrued_overwrites(playing) ==
    IF playing THEN Now - last_update ELSE progress

\* An accrual that does not look at the flag.
Accrued_regardless(playing) == progress + (Now - last_update)

\* progress after the call's if block, given the flag it read.
Accrued(playing) ==
    IF playing THEN progress + (Now - last_update) ELSE progress

GpAccrue(t) ==
    /\ At(t, "gp_accrue")
    /\ progress' = Accrued(loc[t].playing)
    /\ last_update' = IF loc[t].playing THEN Now ELSE last_update
    /\ Finish(t, [st |-> "ok", val |-> Accrued(loc[t].playing)])
    /\ UNCHANGED <<queue, qlast, clock, played, is_playing, muted, volume,
                   eq_settings, duration, sink, call, loc, pre>>

(***************************************************************************)
(* play (73-79), pause (81-85), play_pause (347-354)                       *)
(***************************************************************************)
\* play reads the volume only to print it; its first shared effect is on the
\* sink.
PlaySink(t) ==
    /\ At(t, "play_sink")
    /\ CanLock(t)
    /\ IF IsPoisoned(t)
       THEN Panic(t) /\ UNCHANGED sink
       ELSE /\ sink' = [sink EXCEPT !.paused = FALSE, !.last = "play"]
            /\ Goto(t, "play_flag")
            /\ UNCHANGED <<lock, poisoned, ret>>
    /\ UNCHANGED <<queue, qlast, clock, played, is_playing, muted, volume,
                   eq_settings, duration, progress, last_update, call, loc,
                   pre>>

PlayFlag(t) ==
    /\ At(t, "play_flag")
    /\ is_playing' = TRUE
    /\ Goto(t, "play_last")
    /\ UNCHANGED <<queue, qlast, clock, played, muted, volume, eq_settings,
                   duration, progress, last_update, sink, lock, poisoned, call,
                   loc, pre, ret>>

PlayLast(t) ==
    /\ At(t, "play_last")
    /\ CanLock(t)
    /\ IF IsPoisoned(t)
       THEN Panic(t) /\ UNCHANGED last_update
       ELSE last_update' = Now /\ Finish(t, Ok)
    /\ UNCHANGED <<queue, qlast, clock, played, is_playing, muted, volume,
                   eq_settings, duration, progress, sink, call, loc, pre>>

PauseSink(t) ==
    /\ At(t, "pause_sink")
    /\ CanLock(t)
    /\ IF IsPoisoned(t)
       THEN Panic(t) /\ UNCHANGED sink
       ELSE /\ sink' = [sink EXCEPT !.paused = TRUE, !.last = "pause"]
            /\ Goto(t, "pause_flag")
            /\ UNCHANGED <<lock, poisoned, ret>>
    /\ UNCHANGED <<queue, qlast, clock, played, is_playing, muted, volume,
                   eq_settings, duration, progress, last_update, call, loc,
                   pre>>

PauseFlag(t) ==
    /\ At(t, "pause_flag")
    /\ is_playing' = FALSE
    /\ Goto(t, "gp_progress")
    /\ UNCHANGED <<queue, qlast, clock, played, muted, volume, eq_settings,
                   duration, progress, last_update, sink, lock, poisoned, call,
                   loc, pre, ret>>

PlayPause(t) ==
    /\ At(t, "pp_load")
    /\ Goto(t, IF is_playing THEN "pause_sink" ELSE "play_sink")
    /\ UNCHANGED <<queue, qlast, clock, played, is_playing, muted, volume,
                   eq_settings, duration, progress, last_update, sink, lock,
                   poisoned, call, loc, pre, ret>>


(***************************************************************************)
(* set_muted (91-97), set_volume (99-104), set_eq_settings (106-108)       *)
(***************************************************************************)
SmStore(t) ==
    /\ At(t, "sm_store")
    /\ muted' = call[t].b
    /\ Goto(t, "sm_sink")
    /\ UNCHANGED <<queue, qlast, clock, played, is_playing, volume,
                   eq_settings, duration,
                   progress, last_update, sink, lock, poisoned, call, loc, pre, ret>>

\* A set_muted that hands the stored volume over whatever the flag.
MutedGain_ignores_flag(m) == volume

\* The gain set_muted(m) hands to Sink::set_volume.
MutedGain(m) == IF m THEN 0 ELSE volume

SmSink(t) ==
    /\ At(t, "sm_sink")
    /\ CanLock(t)
    /\ IF IsPoisoned(t)
       THEN Panic(t) /\ UNCHANGED sink
       ELSE sink' = [sink EXCEPT !.gain = MutedGain(call[t].b)] /\ Finish(t, Ok)
    /\ UNCHANGED <<queue, qlast, clock, played, is_playing, muted, volume,
                   eq_settings, duration, progress, last_update, call, loc,
                   pre>>

SvStore(t) ==
    /\ At(t, "sv_store")
    /\ volume' = call[t].n
    /\ Goto(t, "sv_load")
    /\ UNCHANGED <<queue, qlast, clock, played, is_playing, muted, eq_settings,
                   duration, progress, last_update, sink, lock, poisoned, call,
                   loc, pre, ret>>

SvLoad(t) ==
    /\ At(t, "sv_load")
    /\ loc' = [loc EXCEPT ![t].muted = muted]
    /\ IF muted
       THEN Finish(t, Ok)
       ELSE Goto(t, "sv_sink") /\ UNCHANGED <<lock, poisoned, ret>>
    /\ UNCHANGED <<queue, qlast, clock, played, is_playing, muted, volume,
                   eq_settings, duration, progress, last_update, sink, call,
                   pre>>

SvSink(t) ==
    /\ At(t, "sv_sink")
    /\ CanLock(t)
    /\ IF IsPoisoned(t)
       THEN Panic(t) /\ UNCHANGED sink
       ELSE sink' = [sink EXCEPT !.gain = call[t].n] /\ Finish(t, Ok)
    /\ UNCHANGED <<queue, qlast, clock, played, is_playing, muted, volume,
                   eq_settings, duration, progress, last_update, call, loc,
                   pre>>

EqStore(t) ==
    /\ At(t, "eq_store")
    /\ eq_settings' = call[t].eq
    /\ Finish(t, Ok)
    /\ UNCHANGED <<queue, qlast, clock, played, is_playing, muted, volume, duration,
                   progress, last_update, sink, call, loc, pre>>

(***************************************************************************)
(* seek (125-141), with its callers skip_to (119-123), the seek command    *)
(* (322-325) and rewind (356-359)                                          *)
(***************************************************************************)
\* (duration.as_secs_f32() * percentage) as u64, then Duration::from_secs:
\* whole seconds, truncated.  The percentage is given in hundredths.
SkipToPosition(d, pct) == ((d * pct) \div 100000) * 1000

SkipToLock(t) ==
    /\ At(t, "skipto_lock")
    /\ CanLock(t)
    /\ IF IsPoisoned(t)
       THEN Panic(t) /\ UNCHANGED loc
       ELSE /\ Take(t)
            /\ loc' = [loc EXCEPT ![t].position = SkipToPosition(duration, call[t].n)]
            /\ Goto(t, "seek_lock")
            /\ UNCHANGED <<poisoned, ret>>
    /\ UNCHANGED <<queue, qlast, clock, played, is_playing, muted, volume,
                   eq_settings, duration, progress, last_update, sink, call,
                   pre>>

SeekLock(t) ==
    /\ At(t, "seek_lock")
    /\ CanLock(t)
    /\ IF IsPoisoned(t)
       THEN Panic(t) /\ UNCHANGED loc
       ELSE /\ Take(t)
            /\ loc' = [loc EXCEPT ![t].was_playing = is_playing]
            /\ Goto(t, IF is_playing THEN "seek_pause" ELSE "seek_progress")
            /\ UNCHANGED <<poisoned, ret>>
    /\ UNCHANGED <<queue, qlast, clock, played, is_playing, muted, volume,
                   eq_settings, duration, progress, last_update, sink, call,
                   pre>>

SeekPause(t) ==
    /\ At(t, "seek_pause")
    /\ sink' = [sink EXCEPT !.paused = TRUE, !.last = "pause"]
    /\ is_playing' = FALSE
    /\ Goto(t, "seek_progress")
    /\ UNCHANGED <<queue, qlast, clock, played, muted, volume, eq_settings,
                   duration, progress, last_update, lock, poisoned, call, loc,
                   pre, ret>>

\* A seek relative to the stored progress.
SeekProgress_relative(position) == progress + position

\* What seek stores in progress.
SeekProgress(position) == position

SeekSetProgress(t) ==
    /\ At(t, "seek_progress")
    /\ CanLock(t)
    /\ IF IsPoisoned(t)
       THEN Panic(t) /\ UNCHANGED progress
       ELSE /\ progress' = SeekProgress(loc[t].position)
            /\ Goto(t, "seek_last")
            /\ UNCHANGED <<lock, poisoned, ret>>
    /\ UNCHANGED <<queue, qlast, clock, played, is_playing, muted, volume,
                   eq_settings, duration, last_update, sink, call, loc, pre>>

SeekSetLast(t) ==
    /\ At(t, "seek_last")
    /\ CanLock(t)
    /\ IF IsPoisoned(t)
       THEN Panic(t) /\ UNCHANGED last_update
       ELSE /\ last_update' = Now
            /\ Goto(t, "seek_resume")
            /\ UNCHANGED <<lock, poisoned, ret>>
    /\ UNCHANGED <<queue, qlast, clock, played, is_playing, muted, volume,
                   eq_settings, duration, progress, sink, call, loc, pre>>

SeekResume(t) ==
    /\ At(t, "seek_resume")
    /\ sink' = IF loc[t].was_playing THEN [sink EXCEPT !.paused = FALSE, !.last = "play"] ELSE sink
    /\ is_playing' = IF loc[t].was_playing THEN TRUE ELSE is_playing
    /\ Finish(t, Ok)
    /\ UNCHANGED <<queue, qlast, clock, played, muted, volume, eq_settings,
                   duration, progress, last_update, call, loc, pre>>

(***************************************************************************)
(* load_song_file (143-166), load_song (168-187), with its callers the     *)
(* load_song command (327-335) and skip (110-117)                          *)
(***************************************************************************)
\* load_song_file: {id}.flac, then {id}.mp3, else Err.
Resolves(s) == HasFlac(s) \/ HasMp3(s)

\* A resolution that stops the sink before it reports that no file exists.
LoadResolve_stops(t) ==
    /\ At(t, "load_resolve")
    /\ IF Resolves(loc[t].song)
       THEN Goto(t, "load_lock") /\ UNCHANGED <<lock, poisoned, ret, sink>>
       ELSE /\ Finish(t, [st |-> "err", val |-> 0])
            /\ sink' = [sink EXCEPT !.stream = NoSong, !.eq = <<>>]
    /\ UNCHANGED <<queue, qlast, clock, played, is_playing, muted, volume,
                   eq_settings, duration, progress, last_update, call, loc,
                   pre>>

LoadResolve(t) ==
    /\ At(t, "load_resolve")
    /\ IF Resolves(loc[t].song)
       THEN Goto(t, "load_lock") /\ UNCHANGED <<lock, poisoned, ret>>
       ELSE Finish(t, [st |-> "err", val |-> 0])
    /\ UNCHANGED <<queue, qlast, clock, played, is_playing, muted, volume,
                   eq_settings, duration, progress, last_update, sink, call,
                   loc, pre>>

\* skip: the queue guard is held until skip returns.
SkipLock(t) ==
    /\ At(t, "skip_lock")
    /\ CanLock(t)
    /\ IF IsPoisoned(t)
       THEN Panic(t) /\ UNCHANGED <<queue, loc>>
       ELSE /\ queue' = next(queue)
            /\ loc' = [loc EXCEPT ![t].song = current(next(queue))]
            /\ IF current(next(queue)) # NoSong /\ Resolves(current(next(queue)))
               THEN Take(t) /\ Goto(t, "load_lock") /\ UNCHANGED <<poisoned, ret>>
               ELSE Finish(t, Ok)
    /\ UNCHANGED <<qlast, clock, played, is_playing, muted, volume, eq_settings,
                   duration, progress, last_update, sink, call, pre>>

LoadLock(t) ==
    /\ At(t, "load_lock")
    /\ CanLock(t)
    /\ IF IsPoisoned(t)
       THEN Panic(t) /\ UNCHANGED loc
       ELSE /\ Take(t)
            /\ loc' = [loc EXCEPT ![t].was_playing = is_playing]
            /\ Goto(t, "load_stop")
            /\ UNCHANGED <<poisoned, ret>>
    /\ UNCHANGED <<queue, qlast, clock, played, is_playing, muted, volume,
                   eq_settings, duration, progress, last_update, sink, call,
                   pre>>

\* A load that takes the sink guard for the stop alone.
LoadStop_releases(t) ==
    /\ At(t, "load_stop")
    /\ sink' = [sink EXCEPT !.stream = NoSong, !.eq = <<>>]
    /\ lock' = [lock EXCEPT !["sink"] = Free]
    /\ Goto(t, "load_append")
    /\ UNCHANGED <<queue, qlast, clock, played, is_playing, muted, volume,
                   eq_settings, duration, progress, last_update, poisoned,
                   call, loc, pre, ret>>

\* Sink::stop empties the sink; the guard taken at load_lock stays held.
LoadStop(t) ==
    /\ At(t, "load_stop")
    /\ sink' = [sink EXCEPT !.stream = NoSong, !.eq = <<>>]
    /\ Goto(t, "load_append")
    /\ UNCHANGED <<queue, qlast, clock, played, is_playing, muted, volume,
                   eq_settings, duration, progress, last_update, lock,
                   poisoned, call, loc, pre, ret>>

\* The gains, in tenths of a dB, of the ten filters of a cascade built from
\* the stored settings.
db_gains_of_settings ==
    IF eq_settings = "bass"
    THEN <<60, 60, 30, 0, 0, 0, 0, 0, 0, 0>>
    ELSE <<0, 0, 0, 0, 0, 0, 0, 0, 0, 0>>

\* The gains, in tenths of a dB, that load_song gives Equalizer::new.
db_gains == <<46, 80, 46, 9, 0, 30, 9, 0, 0, 0>>

\* Decoder::new(file).unwrap() panics on a file that does not decode; the sink
\* was stopped one step earlier.  Sink::append puts the new stream in the
\* stopped sink; neither stop nor append changes the paused flag or the gain.
LoadAppend(t) ==
    /\ At(t, "load_append")
    /\ IF Decodes(loc[t].song)
       THEN /\ sink' = [sink EXCEPT !.stream = loc[t].song, !.eq = db_gains]
            /\ Goto(t, "load_duration")
            /\ UNCHANGED <<lock, poisoned, ret>>
       ELSE Panic(t) /\ UNCHANGED sink
    /\ UNCHANGED <<queue, qlast, clock, played, is_playing, muted, volume,
                   eq_settings, duration, progress, last_update, call, loc,
                   pre>>

LoadDuration(t) ==
    /\ At(t, "load_duration")
    /\ CanLock(t)
    /\ IF IsPoisoned(t)
       THEN Panic(t) /\ UNCHANGED duration
       ELSE /\ duration' = SongDuration(loc[t].song)
            /\ Goto(t, "load_progress")
            /\ UNCHANGED <<lock, poisoned, ret>>
    /\ UNCHANGED <<queue, qlast, clock, played, is_playing, muted, volume,
                   eq_settings, progress, last_update, sink, call, loc, pre>>

LoadProgress(t) ==
    /\ At(t, "load_progress")
    /\ CanLock(t)
    /\ IF IsPoisoned(t)
       THEN Panic(t) /\ UNCHANGED progress
       ELSE /\ progress' = 0
            /\ Goto(t, "load_last")
            /\ UNCHANGED <<lock, poisoned, ret>>
    /\ UNCHANGED <<queue, qlast, clock, played, is_playing, muted, volume,
                   eq_settings, duration, last_update, sink, call, loc, pre>>

LoadLast(t) ==
    /\ At(t, "load_last")
    /\ CanLock(t)
    /\ IF IsPoisoned(t)
       THEN Panic(t) /\ UNCHANGED last_update
       ELSE /\ last_update' = Now
            /\ Goto(t, "load_resume")
            /\ UNCHANGED <<lock, poisoned, ret>>
    /\ UNCHANGED <<queue, qlast, clock, played, is_playing, muted, volume,
                   eq_settings, duration, progress, sink, call, loc, pre>>

\* A load that resumes whether or not playback was active.
LoadResume_always(t) ==
    /\ At(t, "load_resume")
    /\ sink' = [sink EXCEPT !.paused = FALSE, !.last = "play"]
    /\ is_playing' = TRUE
    /\ Finish(t, Ok)
    /\ UNCHANGED <<queue, qlast, clock, played, muted, volume, eq_settings,
                   duration, progress, last_update, call, loc, pre>>

LoadResume(t) ==
    /\ At(t, "load_resume")
    /\ sink' = IF loc[t].was_playing THEN [sink EXCEPT !.paused = FALSE, !.last = "play"] ELSE sink
    /\ is_playing' = IF loc[t].was_playing THEN TRUE ELSE is_playing
    /\ Finish(t, Ok)
    /\ UNCHANGED <<queue, qlast, clock, played, muted, volume, eq_settings,
                   duration, progress, last_update, call, loc, pre>>


(***************************************************************************)
(* The steps of the commands, by the part of the player they belong to.    *)
(***************************************************************************)
PositionSteps(t) ==
    \/ GpLockProgress(t)
    \/ GpLockLast(t)
    \/ GpLoad(t)
    \/ GpAccrue(t)

PlayPauseSteps(t) ==
    \/ PlaySink(t)
    \/ PlayFlag(t)
    \/ PlayLast(t)
    \/ PauseSink(t)
    \/ PauseFlag(t)
    \/ PlayPause(t)

VolumeSteps(t) ==
    \/ SmStore(t)
    \/ SmSink(t)
    \/ SvStore(t)
    \/ SvLoad(t)
    \/ SvSink(t)

SeekSteps(t) ==
    \/ SkipToLock(t)
    \/ SeekLock(t)
    \/ SeekPause(t)
    \/ SeekSetProgress(t)
    \/ SeekSetLast(t)
    \/ SeekResume(t)

LoadSteps(t) ==
    \/ LoadResolve(t)
    \/ LoadLock(t)
    \/ LoadStop(t)
    \/ LoadAppend(t)
    \/ LoadDuration(t)
    \/ LoadProgress(t)
    \/ LoadLast(t)
    \/ LoadResume(t)

\* The surrounding layer fills the player's queue (Queue::add_song under the
\* queue Mutex); no command of player.rs does.
AddToQueue ==
    /\ lock["queue"] = Free
    /\ "queue" \notin poisoned
    /\ Len(queue.songs) < MaxPlayerQueue
    /\ queue' = add_song(queue, "A")
    /\ qlast' = [op |-> "add", index |-> 0, song |-> "A", ret |-> NoSong]
    /\ UNCHANGED playerVars

\* The same between two commands, with any song: one whose file decodes, one
\* whose file does not, one that has no file.
SkipSongs == {"A", "B", "X", "Z"}

QueueSong ==
    /\ \A t \in Threads : pc[t] = "idle"
    /\ "queue" \notin poisoned
    /\ Len(queue.songs) < MaxSkipQueue
    /\ \E s \in SkipSongs :
          /\ queue' = add_song(queue, s)
          /\ qlast' = [op |-> "add", index |-> 0, song |-> s, ret |-> NoSong]
    /\ UNCHANGED playerVars

(***************************************************************************)
(* Spec: two callers run commands concurrently, every interleaving of      *)
(* their steps.  The clock stands still and every file decodes.            *)
(***************************************************************************)
ConcCmds ==
    {Cmd(op, NoSong, 0, FALSE, "empty") :
        op \in {"play", "pause", "play_pause", "rewind", "skip", "get_position"}}
    \cup {Cmd("seek", NoSong, 1, FALSE, "empty")}
    \cup {Cmd("skip_to", NoSong, 50, FALSE, "empty")}
    \cup {Cmd("load_song", "A", 0, FALSE, "empty")}
    \cup {Cmd("set_volume", NoSong, 50, FALSE, "empty")}
    \cup {Cmd("set_muted", NoSong, 0, TRUE, "empty")}

Next ==
    \/ AddToQueue
    \/ \E t \in Threads :
          \/ \E c \in ConcCmds : Call(t, c, NoPre)
          \/ Return(t)
          \/ PositionSteps(t)
          \/ PlayPauseSteps(t)
          \/ VolumeSteps(t)
          \/ SeekSteps(t)
          \/ SkipLock(t)
          \/ LoadSteps(t)

Spec == Init /\ [][Next]_vars

(***************************************************************************)
(* SpecLoad: two callers run loads, of files that decode and of one that   *)
(* does not, against play, pause, seek, set_volume and set_muted.          *)
(***************************************************************************)
LoadCmds ==
    {Cmd(op, NoSong, 0, FALSE, "empty") : op \in {"play", "pause"}}
    \cup {Cmd("seek", NoSong, 1, FALSE, "empty")}
    \cup {Cmd("load_song", s, 0, FALSE, "empty") : s \in {"A", "X"}}
    \cup {Cmd("set_volume", NoSong, 50, FALSE, "empty")}
    \cup {Cmd("set_muted", NoSong, 0, TRUE, "empty")}

NextLoad ==
    \E t \in Threads :
       \/ \E c \in LoadCmds : Call(t, c, NoPre)
       \/ Return(t)
       \/ PositionSteps(t)
       \/ PlaySink(t)
       \/ PlayFlag(t)
       \/ PlayLast(t)
       \/ PauseSink(t)
       \/ PauseFlag(t)
       \/ VolumeSteps(t)
       \/ SeekLock(t)
       \/ SeekPause(t)
       \/ SeekSetProgress(t)
       \/ SeekSetLast(t)
       \/ SeekResume(t)
       \/ LoadSteps(t)

SpecLoad == Init /\ [][NextLoad]_vars

(***************************************************************************)
(* SpecQueue: the queue alone, under every sequence of its operations.     *)
(***************************************************************************)
NextQueue == QAdd \/ QRemove \/ QNext \/ QPrev \/ QCurrent \/ QClear

SpecQueue == Init /\ [][NextQueue]_vars

(***************************************************************************)
(* SpecSeq: one caller, one command at a time, while the clock runs:       *)
(* playback, position and loading.                                         *)
(***************************************************************************)
SeqCmds ==
    {Cmd(op, NoSong, 0, FALSE, "empty") :
        op \in {"play", "pause", "play_pause", "rewind", "get_position"}}
    \cup {Cmd("seek", NoSong, n, FALSE, "empty") : n \in {0, 2}}
    \cup {Cmd("skip_to", NoSong, n, FALSE, "empty") : n \in {0, 25, 50, 100}}
    \cup {Cmd("load_song", s, 0, FALSE, "empty") : s \in {"A", "B", "X", "Z"}}

NextSeq ==
    \/ \E c \in SeqCmds : Call("t1", c, Snapshot)
    \/ Return("t1")
    \/ Tick
    \/ PositionSteps("t1")
    \/ PlayPauseSteps("t1")
    \/ SeekSteps("t1")
    \/ LoadSteps("t1")

SpecSeq == Init /\ [][NextSeq]_vars

(***************************************************************************)
(* SpecVol: one caller, one command at a time: volume, mute, equalizer     *)
(* settings and loading.                                                   *)
(***************************************************************************)
VolCmds ==
    {Cmd("set_volume", NoSong, v, FALSE, "empty") : v \in {0, 50, 100}}
    \cup {Cmd("set_muted", NoSong, 0, b, "empty") : b \in BOOLEAN}
    \cup {Cmd("set_eq_settings", NoSong, 0, FALSE, e) : e \in {"empty", "bass"}}
    \cup {Cmd("load_song", s, 0, FALSE, "empty") : s \in {"A", "X"}}

NextVol ==
    \/ \E c \in VolCmds : Call("t1", c, Snapshot)
    \/ Return("t1")
    \/ VolumeSteps("t1")
    \/ EqStore("t1")
    \/ LoadSteps("t1")

SpecVol == Init /\ [][NextVol]_vars

(***************************************************************************)
(* SpecSkip: one caller, one command at a time, while the clock runs:      *)
(* skip over a queue that is filled between the commands, and loads.       *)
(***************************************************************************)
SkipCmds ==
    {Cmd(op, NoSong, 0, FALSE, "empty") : op \in {"play", "skip"}}
    \cup {Cmd("seek", NoSong, 2, FALSE, "empty")}
    \cup {Cmd("load_song", s, 0, FALSE, "empty") : s \in {"A", "Z"}}

NextSkip ==
    \/ QueueSong
    \/ \E c \in SkipCmds : Call("t1", c, Snapshot)
    \/ Return("t1")
    \/ Tick
    \/ PlaySink("t1")
    \/ PlayFlag("t1")
    \/ PlayLast("t1")
    \/ SeekLock("t1")
    \/ SeekPause("t1")
    \/ SeekSetProgress("t1")
    \/ SeekSetLast("t1")
    \/ SeekResume("t1")
    \/ SkipLock("t1")
    \/ LoadSteps("t1")

SpecSkip == Init /\ [][NextSkip]_vars

(***************************************************************************)
(* SpecPos: two callers run play, pause and the position query             *)
(* concurrently while the clock runs.                                      *)
(***************************************************************************)
PosCmds ==
    {Cmd(op, NoSong, 0, FALSE, "empty") : op \in {"play", "pause", "get_position"}}

NextPos ==
    \/ Tick
    \/ \E t \in Threads :
          \/ \E c \in PosCmds : Call(t, c, NoPre)
          \/ Return(t)
          \/ PositionSteps(t)
          \/ PlaySink(t)
          \/ PlayFlag(t)
          \/ PlayLast(t)
          \/ PauseSink(t)
          \/ PauseFlag(t)

SpecPos == Init /\ [][NextPos]_vars


(***************************************************************************)
(* What the claims speak of.                                               *)
(***************************************************************************)
\* The caller's command op has ended (returned, or panicked).
Ended(t, op) == pc[t] = "done" /\ call[t].op = op

\* The caller's command op has returned normally.
Returned(t, op) == Ended(t, op) /\ ret[t].st = "ok"

\* No command is being executed.
NoCallInFlight == \A t \in Threads : pc[t] \in {"idle", "done"}

\* The states of the conceptual state machine, of a snapshot.
Playing(s) == s.is_playing /\ ~s.sink.paused
Paused(s) == ~s.is_playing /\ s.sink.paused

\* No load has ever succeeded: durations of songs are positive, and only a
\* load that appended its stream sets the duration.
NoTrackLoaded(s) == s.duration = 0 /\ s.sink.stream = NoSong

(***************************************************************************)
(* C7. In every reachable state of the queue the cursor is in range:       *)
(* 0 <= current_index < len when the queue is non-empty, and               *)
(* current_index = 0 when it is empty.                                     *)
(***************************************************************************)
C7_CursorInRange ==
    /\ IF Len(queue.songs) = 0
       THEN queue.current_index = 0
       ELSE 0 <= queue.current_index /\ queue.current_index < Len(queue.songs)
    /\ qlast.ret # "panic"

\* A remove has moved the cursor back onto the last element.
C7_Witness ==
    /\ qlast.op = "remove"
    /\ qlast.index = 2
    /\ Len(queue.songs) = 2
    /\ queue.current_index = 1

(***************************************************************************)
(* C8. remove(index) with index < len deletes exactly the element at index *)
(* and keeps the order of the others, and decrements the cursor exactly    *)
(* when cursor >= index and cursor > 0; with index >= len it changes       *)
(* nothing.  From [A,B,C] with cursor 0, remove(0) gives [B,C] with cursor *)
(* 0, and the next three next() calls return C, B, C.                      *)
(***************************************************************************)
\* v without its element at 0-based position i.
Without(v, i) == SubSeq(v, 1, i) \o SubSeq(v, i + 2, Len(v))

C8_RemoveStep ==
    qlast'.op = "remove" =>
        LET i == qlast'.index
            c == queue.current_index
        IN  IF i < Len(queue.songs)
            THEN /\ queue'.songs = Without(queue.songs, i)
                 /\ queue'.current_index = IF c >= i /\ c > 0 THEN c - 1 ELSE c
            ELSE queue' = queue

C8_Example ==
    (queue = [songs |-> <<"A", "B", "C">>, current_index |-> 0]) =>
        LET q1 == remove_song(queue, 0)
            q2 == next(q1)
            q3 == next(q2)
            q4 == next(q3)
        IN  /\ q1 = [songs |-> <<"B", "C">>, current_index |-> 0]
            /\ <<current(q2), current(q3), current(q4)>> = <<"C", "B", "C">>

C8_Remove == [][C8_RemoveStep]_vars /\ []C8_Example

\* remove(0) has just turned [A,B,C] with cursor 0 into [B,C] with cursor 0.
C8_Witness ==
    /\ qlast.op = "remove"
    /\ qlast.index = 0
    /\ queue = [songs |-> <<"B", "C">>, current_index |-> 0]


(***************************************************************************)
(* C2. pause() forces a position snapshot: called while playing, with      *)
(* last_update = t0 and the clock at t1 >= t0, it leaves progress equal to *)
(* the progress before the call plus (t1 - t0).  t1 is the clock at some   *)
(* moment of the call, between its invocation and its return.              *)
(***************************************************************************)
C2_PauseSnapshots ==
    \A t \in Threads :
        (Returned(t, "pause") /\ pre[t].is_playing) =>
            /\ progress >= pre[t].progress + (pre[t].now - pre[t].last_update)
            /\ progress <= pre[t].progress + (Now - pre[t].last_update)

(***************************************************************************)
(* C4. A load that fails (the file is missing, or it is found and does not *)
(* decode) leaves the previous playback state untouched: the stream in the *)
(* sink, is_playing, progress and duration are as before the call.         *)
(***************************************************************************)
C4_FailedLoadUntouched ==
    \A t \in Threads :
        (Ended(t, "load_song") /\ ret[t].st # "ok") =>
            /\ sink.stream = pre[t].sink.stream
            /\ is_playing = pre[t].is_playing
            /\ progress = pre[t].progress
            /\ duration = pre[t].duration

(***************************************************************************)
(* C5. Seeking with no loaded track is inert: if no load has ever          *)
(* succeeded, seek(p), rewind and skip_to leave progress, is_playing and   *)
(* the sink exactly as they were.                                          *)
(***************************************************************************)
C5_SeekWithoutTrackInert ==
    \A t \in Threads :
        ((Returned(t, "seek") \/ Returned(t, "rewind") \/ Returned(t, "skip_to"))
            /\ NoTrackLoaded(pre[t])) =>
            /\ progress = pre[t].progress
            /\ is_playing = pre[t].is_playing
            /\ sink = pre[t].sink

(***************************************************************************)
(* C6. With no other call in flight, load(song) issued in the Playing      *)
(* state ends in Playing (is_playing, sink resumed) and load(song) issued  *)
(* in the Paused state ends in Paused (not is_playing, sink paused); in    *)
(* both the new stream is in the sink, progress = 0 and duration =         *)
(* song.duration.                                                          *)
(***************************************************************************)
C6_LoadKeepsState ==
    \A t \in Threads :
        (Returned(t, "load_song") /\ (Playing(pre[t]) \/ Paused(pre[t]))) =>
            /\ progress = 0
            /\ duration = SongDuration(call[t].song)
            /\ sink.stream = call[t].song
            /\ Playing(pre[t]) => (is_playing /\ ~sink.paused)
            /\ Paused(pre[t]) => (~is_playing /\ sink.paused)

\* A load over a paused stream that had made progress has returned.
C6_Witness ==
    /\ Returned("t1", "load_song")
    /\ Paused(pre["t1"])
    /\ pre["t1"].progress > 0
    /\ pre["t1"].sink.stream \notin {NoSong, call["t1"].song}

\* The same over a playing stream.
C6_WitnessPlaying ==
    /\ Returned("t1", "load_song")
    /\ Playing(pre["t1"])
    /\ pre["t1"].progress > 0
    /\ pre["t1"].sink.stream \notin {NoSong, call["t1"].song}

(***************************************************************************)
(* C10. While playing, with no play, pause, seek or load in between,       *)
(* get_position accrues exactly the elapsed clock time: each call adds     *)
(* now - last_update to progress, sets last_update to now (the clock at a  *)
(* moment of the call) and returns the new progress, and between the calls *)
(* progress - last_update does not change; so two calls at t1 <= t2 return *)
(* values differing by t2 - t1, whatever calls were made between them.     *)
(***************************************************************************)
C10_CallAccrues ==
    \A t \in Threads :
        (Returned(t, "get_position") /\ pre[t].is_playing) =>
            /\ ret[t].val = progress
            /\ progress - last_update = pre[t].progress - pre[t].last_update
            /\ pre[t].now <= last_update
            /\ last_update <= Now

C10_BetweenCalls ==
    (is_playing /\ \A t \in Threads :
                      /\ call[t].op \in {"none", "get_position"}
                      /\ call'[t].op \in {"none", "get_position"}) =>
        (progress' - last_update' = progress - last_update)

C10_PositionAccrues == []C10_CallAccrues /\ [][C10_BetweenCalls]_vars

\* A position query made while playing has returned a second of accrued time
\* on top of progress that was not zero.
C10_Witness ==
    /\ Returned("t1", "get_position")
    /\ pre["t1"].is_playing
    /\ pre["t1"].progress > 0
    /\ ret["t1"].val = pre["t1"].progress + 1000


(***************************************************************************)
(* C9. With no other call in flight: after set_muted(false) the gain       *)
(* applied to the sink is the stored volume, so after set_volume(v), which *)
(* stores v, followed by set_muted(false) it is v; after set_muted(true)   *)
(* it is 0 whatever the stored volume; set_volume(v) issued while muted    *)
(* stores v and leaves the sink gain as it was, which is 0; set_volume(v)  *)
(* issued while not muted applies v.  Between calls that returned, the     *)
(* gain is 0 if muted and the stored volume otherwise.                     *)
(***************************************************************************)
C9_EffectiveGain ==
    /\ (NoCallInFlight /\ "sink" \notin poisoned) =>
          sink.gain = IF muted THEN 0 ELSE volume
    /\ \A t \in Threads :
        /\ Returned(t, "set_muted") =>
              /\ muted = call[t].b
              /\ volume = pre[t].volume
              /\ sink.gain = IF call[t].b THEN 0 ELSE pre[t].volume
        /\ Returned(t, "set_volume") =>
              /\ volume = call[t].n
              /\ muted = pre[t].muted
              /\ sink.gain = IF pre[t].muted THEN pre[t].sink.gain ELSE call[t].n

\* set_muted(false) has returned after a volume other than the initial one was
\* stored while muted.
C9_Witness ==
    /\ Returned("t1", "set_muted")
    /\ ~call["t1"].b
    /\ pre["t1"].muted
    /\ pre["t1"].sink.gain = 0
    /\ sink.gain = 50

\* set_volume has returned while muted.
C9_WitnessMuted ==
    /\ Returned("t1", "set_volume")
    /\ pre["t1"].muted
    /\ call["t1"].n = 50
    /\ pre["t1"].volume = 100
    /\ sink.gain = 0


(***************************************************************************)
(* C1. Under every interleaving of concurrently invoked commands no        *)
(* reachable state has two calls each blocked on a lock the other holds,   *)
(* so every command that has started completes.                            *)
(***************************************************************************)
\* Caller t waits for a Mutex whose guard caller u holds.
BlockedBy(t, u) == NeedLock(t) \in Locks /\ lock[NeedLock(t)] = u

C1_NoDeadlock ==
    \A t, u \in Threads : ~(t # u /\ BlockedBy(t, u) /\ BlockedBy(u, t))

(***************************************************************************)
(* C3. load is atomic on the sink: from the moment load holds the sink     *)
(* until it has appended the new stream (the old stream still in the sink, *)
(* then the sink stopped and empty) no other caller performs a sink        *)
(* action, and the sink changes only by load's own steps.                  *)
(***************************************************************************)
\* The positions whose step acts on the sink.
SinkActing ==
    {"play_sink", "pause_sink", "sm_sink", "sv_sink", "seek_pause", "seek_resume",
     "load_stop", "load_append", "load_resume"}

\* The caller holds the sink for a load that has not yet appended.
Replacing(u) == pc[u] \in {"load_stop", "load_append"}

C3_Step ==
    \A u \in Threads :
        Replacing(u) =>
            /\ \A t \in Threads \ {u} : pc[t] \in SinkActing => pc'[t] = pc[t]
            /\ pc'[u] = pc[u] => sink' = sink

C3_LoadAtomic == [][C3_Step]_vars

\* A load has stopped the old stream and not yet appended the new one, while
\* the other caller waits to resume the sink.
C3_Witness ==
    /\ pc["t1"] = "load_append"
    /\ sink.stream = NoSong
    /\ duration > 0
    /\ pc["t2"] = "play_sink"

(***************************************************************************)
(* C11. While not playing, get_position returns the stored progress and    *)
(* changes nothing: a call made at any clock time returns the progress     *)
(* stored before it and leaves progress, last_update and the rest of the   *)
(* player as they were, and between such calls neither progress nor        *)
(* last_update changes, so any number of calls return the same value.      *)
(***************************************************************************)
C11_CallInert ==
    \A t \in Threads :
        (Returned(t, "get_position") /\ ~pre[t].is_playing) =>
            /\ ret[t].val = pre[t].progress
            /\ progress = pre[t].progress
            /\ last_update = pre[t].last_update
            /\ is_playing = pre[t].is_playing
            /\ duration = pre[t].duration
            /\ sink = pre[t].sink

C11_BetweenCalls ==
    (~is_playing /\ \A t \in Threads :
                       /\ call[t].op \in {"none", "get_position"}
                       /\ call'[t].op \in {"none", "get_position"}) =>
        (progress' = progress /\ last_update' = last_update)

C11_IdlePositionInert == []C11_CallInert /\ [][C11_BetweenCalls]_vars

\* A position query has returned while not playing, a second after the last
\* update of a progress that was not zero.
C11_Witness ==
    /\ Returned("t1", "get_position")
    /\ ~pre["t1"].is_playing
    /\ pre["t1"].progress > 0
    /\ Now = pre["t1"].last_update + 1000

(***************************************************************************)
(* C12. With no other call in flight, seek(p) leaves progress equal to p   *)
(* exactly, resets last_update to the clock (read at a moment of the       *)
(* call), and preserves the playback state: is_playing and the sink's      *)
(* running/paused status after the call are what they were before it.      *)
(***************************************************************************)
C12_SeekSetsPosition ==
    \A t \in Threads :
        Returned(t, "seek") =>
            /\ progress = call[t].n * 1000
            /\ pre[t].now <= last_update
            /\ last_update <= Now
            /\ is_playing = pre[t].is_playing
            /\ sink.paused = pre[t].sink.paused
            /\ Playing(pre[t]) => Playing([is_playing |-> is_playing, sink |-> sink])
            /\ Paused(pre[t]) => Paused([is_playing |-> is_playing, sink |-> sink])

\* seek(2 s) has returned in the Playing state, from another position and
\* after the clock had moved on from last_update.
C12_Witness ==
    /\ Returned("t1", "seek")
    /\ Playing(pre["t1"])
    /\ call["t1"].n = 2
    /\ pre["t1"].progress = 500
    /\ pre["t1"].last_update < pre["t1"].now

\* The same in the Paused state.
C12_WitnessPaused ==
    /\ Returned("t1", "seek")
    /\ Paused(pre["t1"])
    /\ call["t1"].n = 2
    /\ pre["t1"].progress = 500
    /\ pre["t1"].last_update < pre["t1"].now

(***************************************************************************)
(* C13. For every percentage in [0,1] and every loaded duration,           *)
(* skip_to(percentage) seeks to the absolute time percentage x duration:   *)
(* progress after the call equals percentage x duration.  Percentages are  *)
(* in hundredths and times in milliseconds.                                *)
(***************************************************************************)
C13_SkipToProportional ==
    \A t \in Threads :
        (Returned(t, "skip_to") /\ ~NoTrackLoaded(pre[t])) =>
            progress * 100 = call[t].n * pre[t].duration

(***************************************************************************)
(* C14. A failed file resolution never touches the sink: when neither      *)
(* {id}.flac nor {id}.mp3 exists, the load_song command returns an error   *)
(* and skip returns normally, and in both cases the sink is as it was (no  *)
(* stop, append, play or pause) and is_playing, progress, duration and     *)
(* last_update are unchanged.                                              *)
(***************************************************************************)
\* The song skip moves to, from the queue the call found.
SkipTarget(t) == current(next(pre[t].queue))

\* Neither {id}.flac nor {id}.mp3 exists.
NoFile(s) == ~HasFlac(s) /\ ~HasMp3(s)

\* The call of caller t has ended on a song that has no file.
FailedResolution(t) ==
    \/ Ended(t, "load_song") /\ NoFile(call[t].song)
    \/ /\ Ended(t, "skip")
       /\ "queue" \notin poisoned
       /\ SkipTarget(t) # NoSong
       /\ NoFile(SkipTarget(t))

C14_UnresolvedLeavesSink ==
    \A t \in Threads :
        FailedResolution(t) =>
            /\ ret[t].st = IF call[t].op = "skip" THEN "ok" ELSE "err"
            /\ sink = pre[t].sink
            /\ is_playing = pre[t].is_playing
            /\ progress = pre[t].progress
            /\ duration = pre[t].duration
            /\ last_update = pre[t].last_update

\* skip has returned from a song without a file, while a stream was playing
\* from a position set half a second earlier.
C14_Witness ==
    /\ Returned("t1", "skip")
    /\ SkipTarget("t1") = "Z"
    /\ Playing(pre["t1"])
    /\ pre["t1"].sink.stream = "A"
    /\ pre["t1"].progress = 2000
    /\ pre["t1"].last_update < Now

\* The load_song command has returned its error in the same situation.
C14_WitnessLoad ==
    /\ Ended("t1", "load_song")
    /\ call["t1"].song = "Z"
    /\ ret["t1"].st = "err"
    /\ Playing(pre["t1"])
    /\ pre["t1"].sink.stream = "A"
    /\ pre["t1"].progress = 2000
    /\ pre["t1"].last_update < Now

(***************************************************************************)
(* C15. skip() on a non-empty queue advances the cursor to                 *)
(* (cursor + 1) mod len and, if that song's file resolves, loads that      *)
(* song: when skip returns, the stream in the sink is the queue's current  *)
(* song, the old stream being discarded, with progress = 0 and duration =  *)
(* that song's duration.  skip() on an empty queue changes nothing: queue, *)
(* sink, progress, duration and is_playing are as they were.               *)
(***************************************************************************)
C15_SkipAdvancesAndLoads ==
    \A t \in Threads :
        Returned(t, "skip") =>
            LET songs == pre[t].queue.songs
                c == (pre[t].queue.current_index + 1) % Len(songs)
            IN  IF Len(songs) = 0
                THEN /\ queue = pre[t].queue
                     /\ sink = pre[t].sink
                     /\ progress = pre[t].progress
                     /\ duration = pre[t].duration
                     /\ is_playing = pre[t].is_playing
                ELSE /\ queue = [songs |-> songs, current_index |-> c]
                     /\ ~NoFile(songs[c + 1]) =>
                            /\ sink.stream = songs[c + 1]
                            /\ progress = 0
                            /\ duration = SongDuration(songs[c + 1])

\* skip has returned from the last song of the queue to the first one, whose
\* stream has replaced another that had been sought to 2 s.
C15_Witness ==
    /\ Returned("t1", "skip")
    /\ pre["t1"].queue = [songs |-> <<"B", "Z">>, current_index |-> 1]
    /\ pre["t1"].sink.stream = "A"
    /\ pre["t1"].progress = 2000
    /\ sink.stream = "B"

\* skip has returned on an empty queue with a stream in the sink.
C15_WitnessEmpty ==
    /\ Returned("t1", "skip")
    /\ pre["t1"].queue.songs = <<>>
    /\ pre["t1"].sink.stream = "A"
    /\ pre["t1"].progress = 2000

(***************************************************************************)
(* C16. For every non-empty queue of length n and every cursor c, calling  *)
(* next() exactly n times with no other queue operation in between returns *)
(* the cursor to c, and the n songs returned are those of the queue        *)
(* positions c + 1, c + 2, ..., c + n modulo n in this order: every        *)
(* position once.  The songs of the queue stay as they are.                *)
(***************************************************************************)
RECURSIVE NextTimes(_, _)
\* The queue after k calls of next().
NextTimes(q, k) == IF k = 0 THEN q ELSE next(NextTimes(q, k - 1))

C16_NextCycles ==
    LET n == Len(queue.songs)
        c == queue.current_index
        at(k) == NextTimes(queue, k)
    IN  n > 0 =>
           /\ at(n) = queue
           /\ \A k \in 1..n :
                 /\ at(k).songs = queue.songs
                 /\ at(k).current_index = (c + k) % n
                 /\ current(at(k)) = queue.songs[((c + k) % n) + 1]
           /\ {at(k).current_index : k \in 1..n} = 0..(n - 1)

\* next() has just wrapped from the last of three songs to the first.
C16_Witness ==
    /\ qlast.op = "next"
    /\ Len(queue.songs) = 3
    /\ queue.current_index = 0
    /\ qlast.ret = queue.songs[1]
    /\ NextTimes(queue, 2).current_index = 2

(***************************************************************************)
(* C17. set_eq_settings(settings) replaces the stored EQSettings value     *)
(* with the given one and changes nothing else: the gains of the cascade   *)
(* of the stream in the sink, is_playing, progress, duration, volume,      *)
(* muted and the queue are as before the call; and the gains every load    *)
(* gives its cascade are the fixed default vector, whatever is stored.     *)
(***************************************************************************)
C17_EqSettingsOnlyStored ==
    /\ \A t \in Threads :
          Returned(t, "set_eq_settings") =>
              /\ eq_settings = call[t].eq
              /\ sink.eq = pre[t].sink.eq
              /\ sink = pre[t].sink
              /\ is_playing = pre[t].is_playing
              /\ progress = pre[t].progress
              /\ duration = pre[t].duration
              /\ last_update = pre[t].last_update
              /\ volume = pre[t].volume
              /\ muted = pre[t].muted
              /\ queue = pre[t].queue
    /\ sink.stream # NoSong => sink.eq = <<46, 80, 46, 9, 0, 30, 9, 0, 0, 0>>

\* Other settings have been stored while a stream was in the sink.
C17_Witness ==
    /\ Returned("t1", "set_eq_settings")
    /\ call["t1"].eq = "bass"
    /\ pre["t1"].eq_settings = "empty"
    /\ pre["t1"].sink.stream = "A"
    /\ pre["t1"].volume = 50

\* A load has returned after other settings had been stored.
C17_WitnessLaterLoad ==
    /\ Returned("t1", "load_song")
    /\ eq_settings = "bass"
    /\ pre["t1"].eq_settings = "bass"
    /\ pre["t1"].sink.stream = NoSong
    /\ sink.stream = "A"

(***************************************************************************)
(* C18. After any interleaving of concurrent play, pause, play_pause, seek *)
(* and load calls in which every call has completed, the is_playing flag   *)
(* agrees with the sink: is_playing is true if and only if the last        *)
(* pause/resume action applied to the sink was a resume.                   *)
(***************************************************************************)
C18_FlagAgreesWithSink ==
    (NoCallInFlight /\ poisoned = {}) => (is_playing <=> sink.last = "play")

(***************************************************************************)
(* C19. After any interleaving of concurrent set_volume and set_muted      *)
(* calls in which every call has completed, the gain applied to the sink   *)
(* equals 0 if the muted flag is true and equals the stored volume         *)
(* otherwise.                                                              *)
(***************************************************************************)
C19_GainAfterConcurrentCalls ==
    (NoCallInFlight /\ poisoned = {}) =>
        (IF muted THEN sink.gain = 0 ELSE sink.gain = volume)

(***************************************************************************)
(* C20. Time spent while not playing is never added to progress: under any *)
(* interleaving of play, pause and get_position calls every increase of    *)
(* progress is bounded by the clock time that elapsed while is_playing was *)
(* true since the previous snapshot.  With these calls alone progress      *)
(* starts at 0 and only grows, so it never exceeds the clock time that has *)
(* passed while is_playing was true.                                       *)
(***************************************************************************)
C20_OnlyPlayedTimeAccrues == progress <= played

(***************************************************************************)
(* C21. Removing any queue entry other than the one under the cursor keeps *)
(* the current song: for every non-empty queue, cursor c and index         *)
(* i < len with i # c, current() returns the same queue entry after        *)
(* remove(i) as before it; add(song) on a non-empty queue likewise leaves  *)
(* current() unchanged.                                                    *)
(***************************************************************************)
\* The entry under the cursor of a non-empty queue.
UnderCursor(q) == q.songs[q.current_index + 1]

C21_Step ==
    /\ (/\ qlast'.op = "remove"
        /\ qlast'.index < Len(queue.songs)
        /\ qlast'.index # queue.current_index) =>
           /\ Len(queue'.songs) = Len(queue.songs) - 1
           /\ queue'.current_index < Len(queue'.songs)
           /\ UnderCursor(queue') = UnderCursor(queue)
    /\ (qlast'.op = "add" /\ Len(queue.songs) > 0) =>
           /\ queue'.current_index = queue.current_index
           /\ UnderCursor(queue') = UnderCursor(queue)

C21_RemoveKeepsCurrent == [][C21_Step]_vars

\* remove(0) has just taken the first of three songs from before the cursor,
\* which stays on the last one.
C21_Witness ==
    /\ qlast.op = "remove"
    /\ qlast.index = 0
    /\ queue = [songs |-> <<"B", "C">>, current_index |-> 1]

====
